---- MODULE Spec2Model ----
(***************************************************************************)
(* Model of sheet-stamp-die-maker: the Neighbors offset table              *)
(* (src/src/neighbor_iterator.rs) and the negative-form and positive-form  *)
(* stages with the fade function (src/src/main.rs).                        *)
(*                                                                         *)
(* The program computes in f32.  An f32 value is modelled bit-exactly as a *)
(* record [nan, m, e] standing for m * 2^e with 2^23 <= |m| < 2^24 (or     *)
(* m = 0), and +, -, *, /, sqrt round to nearest, ties to even, as IEEE    *)
(* 754 single precision does.  Subnormals, infinities and overflow do not  *)
(* arise for the magnitudes used here.  The one routine that is not        *)
(* modelled bit-exactly is the library cosine called by fade_fn: it is     *)
(* tabulated (CosTable) at equally spaced angles in 2^-14 fixed point.     *)
(***************************************************************************)
EXTENDS Integers, Sequences, FiniteSets

(***************************************************************************)
(* f32 arithmetic                                                          *)
(***************************************************************************)

\* Number of significand bits of f32 (1 implicit + 23 stored).
MantBits == 24

\* Guard bits kept when the smaller operand of an addition is shifted right.
GuardBits == MantBits \div 4

RECURSIVE BitLen(_)
BitLen(n) == IF n = 0 THEN 0 ELSE 1 + BitLen(n \div 2)

Abs(n) == IF n < 0 THEN -n ELSE n

F32(m, e) == [nan |-> FALSE, m |-> m, e |-> e]

Zero == F32(0, 0)

NaN == [nan |-> TRUE, m |-> 0, e |-> 0]

Sgn(a) == IF a.m > 0 THEN 1 ELSE IF a.m < 0 THEN -1 ELSE 0

\* mag * 2^ex (mag >= 0, plus a non-zero fraction below its last bit when
\* sticky) rounded to MantBits bits, nearest, ties to even, with sign sg.
Round(sg, mag, ex, sticky) ==
    LET b == BitLen(mag)
    IN IF mag = 0 THEN Zero
       ELSE IF b <= MantBits
            THEN F32(sg * mag * 2^(MantBits - b), ex - (MantBits - b))
            ELSE LET sh   == b - MantBits
                     q    == mag \div 2^sh
                     rem  == mag % 2^sh
                     half == 2^(sh - 1)
                     up   == rem > half \/ (rem = half /\ (sticky \/ q % 2 = 1))
                     q2   == IF up THEN q + 1 ELSE q
                 IN IF q2 = 2^MantBits
                    THEN F32(sg * 2^(MantBits - 1), ex + sh + 1)
                    ELSE F32(sg * q2, ex + sh)

\* |a| < |b| for normalised non-zero a, b.
MagLess(a, b) == a.e < b.e \/ (a.e = b.e /\ Abs(a.m) < Abs(b.m))

\* a < b; false when either is NaN.
F32Lt(a, b) ==
    /\ ~a.nan
    /\ ~b.nan
    /\ IF Sgn(a) # Sgn(b) THEN Sgn(a) < Sgn(b)
       ELSE IF Sgn(a) = 0 THEN FALSE
       ELSE IF Sgn(a) = 1 THEN MagLess(a, b)
       ELSE MagLess(b, a)

F32Gt(a, b) == F32Lt(b, a)

F32Le(a, b) == ~a.nan /\ ~b.nan /\ ~F32Lt(b, a)

F32Ge(a, b) == F32Le(b, a)

\* |a| + |b| with sign sg, for non-zero a, b with |a| >= |b|.
AddMag(sg, a, b) ==
    LET d == a.e - b.e
        A == Abs(a.m)
        B == Abs(b.m)
    IN IF d <= GuardBits
       THEN Round(sg, A * 2^d + B, b.e, FALSE)
       ELSE IF d - GuardBits > MantBits
            THEN Round(sg, A * 2^GuardBits, a.e - GuardBits, TRUE)
            ELSE Round(sg, A * 2^GuardBits + B \div 2^(d - GuardBits),
                       a.e - GuardBits, B % 2^(d - GuardBits) # 0)

\* |a| - |b| with sign sg, for non-zero a, b with |a| >= |b|.
SubMag(sg, a, b) ==
    LET d == a.e - b.e
        A == Abs(a.m)
        B == Abs(b.m)
    IN IF d <= GuardBits
       THEN Round(sg, A * 2^d - B, b.e, FALSE)
       ELSE LET lost == IF d - GuardBits > MantBits THEN TRUE
                        ELSE B % 2^(d - GuardBits) # 0
                fl   == IF d - GuardBits > MantBits THEN 0
                        ELSE B \div 2^(d - GuardBits)
            IN IF lost
               THEN Round(sg, A * 2^GuardBits - fl - 1, a.e - GuardBits, TRUE)
               ELSE Round(sg, A * 2^GuardBits - fl, a.e - GuardBits, FALSE)

F32Neg(a) == IF a.nan THEN a ELSE F32(-a.m, a.e)

F32Add(a, b) ==
    IF a.nan \/ b.nan THEN NaN
    ELSE IF a.m = 0 THEN b
    ELSE IF b.m = 0 THEN a
    ELSE IF Sgn(a) = Sgn(b)
         THEN IF MagLess(a, b) THEN AddMag(Sgn(a), b, a) ELSE AddMag(Sgn(a), a, b)
         ELSE IF MagLess(a, b) THEN SubMag(Sgn(b), b, a) ELSE SubMag(Sgn(a), a, b)

F32Sub(a, b) == F32Add(a, F32Neg(b))

\* The high and low 24-bit halves of the 48-bit product x * y (x, y < 2^24).
MulParts(x, y) ==
    LET xh  == x \div 4096
        xl  == x % 4096
        yh  == y \div 4096
        yl  == y % 4096
        mid == xh * yl + xl * yh
        low == (mid % 4096) * 4096 + xl * yl
    IN [hi |-> xh * yh + mid \div 4096 + low \div 2^24, lo |-> low % 2^24]

F32Mul(a, b) ==
    IF a.nan \/ b.nan THEN NaN
    ELSE IF a.m = 0 \/ b.m = 0 THEN Zero
    ELSE LET p == MulParts(Abs(a.m), Abs(b.m))
         IN Round(Sgn(a) * Sgn(b), p.hi * 16 + p.lo \div 2^20, a.e + b.e + 20,
                  p.lo % 2^20 # 0)

\* n more quotient bits of rem / den (rem < den), by long division.
RECURSIVE DivBits(_, _, _, _)
DivBits(q, rem, den, n) ==
    IF n = 0 THEN [q |-> q, rem |-> rem]
    ELSE IF 2 * rem >= den
         THEN DivBits(2 * q + 1, 2 * rem - den, den, n - 1)
         ELSE DivBits(2 * q, 2 * rem, den, n - 1)

F32Div(a, b) ==
    IF a.nan \/ b.nan \/ b.m = 0 THEN NaN
    ELSE IF a.m = 0 THEN Zero
    ELSE LET A == Abs(a.m)
             B == Abs(b.m)
             r == DivBits(A \div B, A % B, B, 26)
         IN Round(Sgn(a) * Sgn(b), r.q, a.e - b.e - 26, r.rem # 0)

\* Digit-by-digit square root: the radicand is rad (top pairs of bits first,
\* npairs pairs in rad) followed by zeros pairs of zero bits.
RECURSIVE SqrtBits(_, _, _, _, _)
SqrtBits(root, rem, rad, npairs, zeros) ==
    IF npairs = 0 /\ zeros = 0 THEN [root |-> root, rem |-> rem]
    ELSE LET pair  == IF npairs > 0 THEN (rad \div 4^(npairs - 1)) % 4 ELSE 0
             r4    == rem * 4 + pair
             trial == root * 4 + 1
             np    == IF npairs > 0 THEN npairs - 1 ELSE 0
             nz    == IF npairs > 0 THEN zeros ELSE zeros - 1
         IN IF r4 >= trial
            THEN SqrtBits(2 * root + 1, r4 - trial, rad, np, nz)
            ELSE SqrtBits(2 * root, r4, rad, np, nz)

F32Sqrt(a) ==
    IF a.nan \/ a.m < 0 THEN NaN
    ELSE IF a.m = 0 THEN Zero
    ELSE LET odd == a.e % 2 # 0
             rad == IF odd THEN 2 * a.m ELSE a.m
             ex  == IF odd THEN a.e - 1 ELSE a.e
             r   == SqrtBits(0, 0, rad, 13, 14)
         IN Round(1, r.root, (ex \div 2) - 14, r.rem # 0)

\* An integer (|n| < 2^24) as f32: exact.
F32FromInt(n) == Round(IF n < 0 THEN -1 ELSE 1, Abs(n), 0, FALSE)

\* The f32 nearest to the decimal num / den, as the argument parser yields it.
F32Dec(num, den) == F32Div(F32FromInt(num), F32FromInt(den))

\* floor() followed by a saturating cast to an unsigned or signed integer, for
\* a value >= 0 (NaN casts to 0).
FloorInt(a) ==
    IF a.nan \/ a.m <= 0 THEN 0
    ELSE IF a.e >= 0 THEN a.m * 2^a.e
    ELSE IF -a.e >= MantBits THEN 0
    ELSE a.m \div 2^(-a.e)

(***************************************************************************)
(* neighbor_iterator.rs: the offset table                                  *)
(***************************************************************************)

Coordinate(cx, cy) == [x |-> cx, y |-> cy]

\* x as f32, squared (powi(2) is one multiplication).
Powi2(a) == F32Mul(a, a)

\* The inner loop of Neighbors::new for row y: the (Coordinate, distance)
\* pairs for x = start_x ..= end_x, in that order.
Row(r2, y) ==
    LET end_x   == FloorInt(F32Sqrt(F32Sub(r2, Powi2(F32FromInt(y)))))
        start_x == -end_x
    IN [i \in 1..(end_x - start_x + 1) |->
          LET cx == start_x + i - 1
          IN [pos |-> Coordinate(cx, y),
              distance |-> F32Sqrt(F32FromInt(cx * cx + y * y))]]

\* The rows y ..= end_y one after the other: the order of insertion.
RECURSIVE Rows(_, _, _)
Rows(r2, y, end_y) ==
    IF y > end_y THEN <<>> ELSE Row(r2, y) \o Rows(r2, y + 1, end_y)

Inserted(max_radius) ==
    LET r2      == Powi2(max_radius)
        end_y   == FloorInt(max_radius)
        start_y == -end_y
    IN Rows(r2, start_y, end_y)

\* The smallest of a non-empty set of distances (the BTreeMap's first key).
MinKey(keys) == CHOOSE k \in keys : \A o \in keys : F32Le(k, o)

\* BTreeMap<distance, Vec<_>>.values().flatten(): the keys ascending, each
\* key's entries in the order they were pushed.
RECURSIVE Flatten(_, _)
Flatten(entries, keys) ==
    IF keys = {} THEN <<>>
    ELSE LET k == MinKey(keys)
         IN SelectSeq(entries, LAMBDA en : en.distance = k)
              \o Flatten(entries, keys \ {k})

\* A table that keeps the order of insertion (the BTreeMap left out).
NeighborsNewInsertionOrder(max_radius) == Inserted(max_radius)

\* Neighbors::new
NeighborsNew(max_radius) ==
    LET entries == Inserted(max_radius)
    IN Flatten(entries, {entries[i].distance : i \in 1..Len(entries)})

(***************************************************************************)
(* main.rs: constants, casts and the fade function                         *)
(***************************************************************************)

BLACK == 0

U16_MAX == 65535

\* std::f32::consts::PI
PI == F32(13176795, -22)

One == F32FromInt(1)

Two == F32FromInt(2)

\* `as u16` of an f32: truncation, saturating at both ends, NaN to 0.
AsU16(a) == IF FloorInt(a) > U16_MAX THEN U16_MAX ELSE FloorInt(a)

\* cos(i * pi / 64) * 2^14 for i = 0 .. 128, rounded to the nearest integer.
CosTable ==
    << 16384, 16364, 16305, 16207, 16069, 15893, 15679, 15426,
       15137, 14811, 14449, 14053, 13623, 13160, 12665, 12140,
       11585, 11003, 10394, 9760, 9102, 8423, 7723, 7005,
       6270, 5520, 4756, 3981, 3196, 2404, 1606, 804,
       0, -804, -1606, -2404, -3196, -3981, -4756, -5520,
       -6270, -7005, -7723, -8423, -9102, -9760, -10394, -11003,
       -11585, -12140, -12665, -13160, -13623, -14053, -14449, -14811,
       -15137, -15426, -15679, -15893, -16069, -16207, -16305, -16364,
       -16384, -16364, -16305, -16207, -16069, -15893, -15679, -15426,
       -15137, -14811, -14449, -14053, -13623, -13160, -12665, -12140,
       -11585, -11003, -10394, -9760, -9102, -8423, -7723, -7005,
       -6270, -5520, -4756, -3981, -3196, -2404, -1606, -804,
       0, 804, 1606, 2404, 3196, 3981, 4756, 5520,
       6270, 7005, 7723, 8423, 9102, 9760, 10394, 11003,
       11585, 12140, 12665, 13160, 13623, 14053, 14449, 14811,
       15137, 15426, 15679, 15893, 16069, 16207, 16305, 16364,
       16384 >>

\* Table steps in a full turn.
CosPeriod == Len(CosTable) - 1

\* f32::cos for an angle >= 0: the table entry nearest to the angle.
Cos(angle) ==
    LET steps == F32Mul(F32Div(angle, PI), F32FromInt(CosPeriod \div 2))
        i     == FloorInt(F32Add(steps, F32Dec(1, 2))) % CosPeriod
    IN F32Div(F32FromInt(CosTable[i + 1]), F32FromInt(16384))

\* fade_fn, line 277: the distance is beyond the fade distance.
BeyondFade(distance_to_black_mm, fade_distance_mm) ==
    F32Gt(distance_to_black_mm, fade_distance_mm)

\* The curve with the half turn left out.
FadeCurveNoHalfTurn(distance_to_black_mm, fade_distance_mm) ==
    LET angle == F32Mul(F32Div(distance_to_black_mm, fade_distance_mm), PI)
    IN AsU16(F32Mul(F32Div(F32Add(Cos(angle), One), Two), F32FromInt(U16_MAX)))

\* fade_fn, lines 280-281: the raised cosine.
FadeCurve(distance_to_black_mm, fade_distance_mm) ==
    LET angle == F32Mul(F32Div(distance_to_black_mm, fade_distance_mm), PI)
    IN AsU16(F32Mul(F32Div(F32Add(Cos(F32Add(angle, PI)), One), Two),
                    F32FromInt(U16_MAX)))

fade_fn(distance_to_black_mm, fade_distance_mm) ==
    IF BeyondFade(distance_to_black_mm, fade_distance_mm)
    THEN U16_MAX
    ELSE FadeCurve(distance_to_black_mm, fade_distance_mm)

(***************************************************************************)
(* State                                                                   *)
(***************************************************************************)

VARIABLES
    pc,                         \* where the program is
    max_radius,                 \* Neighbors::new argument
    neighbors,                  \* Neighbors.neighbors
    iter,                       \* NeighborIterator: index of the next entry, 0 = none
    collected,                  \* what the current iterator has yielded
    distance_to_black_mm,       \* fade_fn arguments, result, cosine evaluations
    fade_distance_mm,
    fade_ret,
    cos_calls,
    width,                      \* image dimensions
    height,
    input,                      \* the input image
    fade_distance,              \* Args
    pixels_per_mm,
    punch_out_depth,
    sheet_thickness,
    negative_form,
    output_x,                   \* compute_negative_form loop position
    output_y,
    sheet_thickness_neighbors,  \* compute_positive_form locals
    positive_form,
    positive_x,
    positive_y,
    positive_z_mm,
    read                        \* what the last step of the neighbor scan did

nbVars == <<max_radius, neighbors, iter, collected>>

fadeVars == <<distance_to_black_mm, fade_distance_mm, fade_ret, cos_calls>>

imgVars == <<width, height, input, fade_distance, pixels_per_mm, punch_out_depth,
             sheet_thickness>>

negVars == <<output_x, output_y>>

posVars == <<sheet_thickness_neighbors, positive_form, positive_x, positive_y,
             positive_z_mm, read>>

vars == <<pc, nbVars, fadeVars, imgVars, negative_form, negVars, posVars>>

\* The parts of the state a specification does not use.
NbIdle == max_radius = Zero /\ neighbors = <<>> /\ iter = 0 /\ collected = <<>>

FadeIdle ==
    /\ distance_to_black_mm = Zero
    /\ fade_distance_mm = Zero
    /\ fade_ret = 0
    /\ cos_calls = 0

ImgIdle ==
    /\ width = 0
    /\ height = 0
    /\ input = <<>>
    /\ fade_distance = Zero
    /\ pixels_per_mm = Zero
    /\ punch_out_depth = Zero
    /\ sheet_thickness = Zero
    /\ negative_form = <<>>

NegIdle == output_x = 0 /\ output_y = 0

NoRead == [kind |-> "none"]

PosIdle ==
    /\ sheet_thickness_neighbors = <<>>
    /\ positive_form = <<>>
    /\ positive_x = 0
    /\ positive_y = 0
    /\ positive_z_mm = Zero
    /\ read = NoRead

(***************************************************************************)
(* The offset table and its iterator                                       *)
(***************************************************************************)

\* Largest radius of the quarter-pixel grid, in quarters of a pixel.
MaxQuarterRadius == 12

\* The radii of the unit tests (0.99, 1.0, sqrt(1.9999), sqrt(2) + 0.0001),
\* the quarter-pixel grid, and 0x1.21c5b6p+3 (9.055385), the f32 just
\* below sqrt(82).
Radii ==
    {F32Dec(99, 100), F32FromInt(1), F32Sqrt(F32Dec(19999, 10000)),
     F32Add(F32Sqrt(F32FromInt(2)), F32Dec(1, 10000)), F32(9495259, -20)}
      \cup {F32Dec(q, 4) : q \in 0..MaxQuarterRadius}

InitNeighbors ==
    /\ pc = "new"
    /\ max_radius \in Radii
    /\ neighbors = <<>>
    /\ iter = 0
    /\ collected = <<>>
    /\ FadeIdle /\ ImgIdle /\ NegIdle /\ PosIdle

\* Neighbors::new(max_radius); the assertion max_radius >= 0.0 holds of Radii.
New ==
    /\ pc = "new"
    /\ F32Ge(max_radius, Zero)
    /\ neighbors' = NeighborsNew(max_radius)
    /\ pc' = "built"
    /\ UNCHANGED <<max_radius, iter, collected, fadeVars, imgVars, negative_form,
                   negVars, posVars>>

\* (&Neighbors).into_iter(): a fresh iterator over the table.
IntoIter ==
    /\ pc = "built"
    /\ iter' = 1
    /\ collected' = <<>>
    /\ UNCHANGED <<pc, max_radius, neighbors, fadeVars, imgVars, negative_form,
                   negVars, posVars>>

\* NeighborIterator::next(): the next entry, or None at the end.
IterNext ==
    /\ pc = "built"
    /\ iter > 0
    /\ \/ /\ iter <= Len(neighbors)
          /\ collected' = Append(collected, neighbors[iter])
          /\ iter' = iter + 1
       \/ /\ iter > Len(neighbors)
          /\ UNCHANGED <<iter, collected>>
    /\ UNCHANGED <<pc, max_radius, neighbors, fadeVars, imgVars, negative_form,
                   negVars, posVars>>

NextNeighbors == New \/ IntoIter \/ IterNext

SpecNeighbors == InitNeighbors /\ [][NextNeighbors]_vars

(***************************************************************************)
(* fade_fn in isolation                                                    *)
(***************************************************************************)

\* Distances are sixteenths of the fade distance, up to MaxFadeStep of them.
MaxFadeStep == 20

FadeDistances == {F32Dec(45, 10), F32FromInt(1), F32Dec(15, 10), F32Dec(5, 100),
                  F32Dec(7, 10)}

FadeInputs(f) ==
    {F32Div(F32Mul(F32FromInt(i), f), F32FromInt(16)) : i \in 0..MaxFadeStep}
      \cup {F32FromInt(10)}

InitFade ==
    /\ pc = "fade_call"
    /\ fade_distance_mm \in FadeDistances
    /\ distance_to_black_mm \in FadeInputs(fade_distance_mm)
    /\ fade_ret = 0
    /\ cos_calls = 0
    /\ NbIdle /\ ImgIdle /\ NegIdle /\ PosIdle

\* One call of fade_fn: the early return, or the cosine formula.
FadeFn ==
    /\ pc = "fade_call"
    /\ IF BeyondFade(distance_to_black_mm, fade_distance_mm)
       THEN fade_ret' = U16_MAX /\ cos_calls' = cos_calls
       ELSE /\ fade_ret' = FadeCurve(distance_to_black_mm, fade_distance_mm)
            /\ cos_calls' = cos_calls + 1
    /\ pc' = "fade_ret"
    /\ UNCHANGED <<distance_to_black_mm, fade_distance_mm, nbVars, imgVars,
                   negative_form, negVars, posVars>>

NextFade == FadeFn

SpecFade == InitFade /\ [][NextFade]_vars

(***************************************************************************)
(* compute_negative_form                                                   *)
(***************************************************************************)

PixelCoordinate(px, py) == [x |-> px, y |-> py]

Pixels(w, h) == {PixelCoordinate(px, py) : px \in 0..(w - 1), py \in 0..(h - 1)}

\* ImageBuffer::new(width, height): every sample 0.
NewImage(w, h) == [c \in Pixels(w, h) |-> 0]

SaturatingSub(a, b) == IF a < b THEN 0 ELSE a - b

Min(a, b) == IF a < b THEN a ELSE b

distance_mm(location1, location2, ppm) ==
    LET dx == F32Div(F32Sub(F32FromInt(location1.x), F32FromInt(location2.x)), ppm)
        dy == F32Div(F32Sub(F32FromInt(location1.y), F32FromInt(location2.y)), ppm)
    IN F32Sqrt(F32Add(F32Mul(dx, dx), F32Mul(dy, dy)))

None == [some |-> FALSE]

Some(v) == [some |-> TRUE, v |-> v]

\* The two loops of closest_black_pixel from (other_x, other_y) on, over
\* start_x..end_x and ..end_y, both ends exclusive.
RECURSIVE ScanBox(_, _, _, _, _, _, _, _, _)
ScanBox(image, coordinate, ppm, start_x, end_x, end_y, other_x, other_y, closest_location) ==
    IF other_y >= end_y THEN closest_location
    ELSE IF other_x >= end_x
         THEN ScanBox(image, coordinate, ppm, start_x, end_x, end_y, start_x,
                      other_y + 1, closest_location)
    ELSE IF image[PixelCoordinate(other_x, other_y)] = BLACK
         THEN LET distance ==
                      distance_mm(coordinate, PixelCoordinate(other_x, other_y), ppm)
                  closer ==
                      IF closest_location.some
                      THEN IF F32Lt(distance, closest_location.v)
                           THEN Some(distance) ELSE closest_location
                      ELSE Some(distance)
              IN ScanBox(image, coordinate, ppm, start_x, end_x, end_y,
                         other_x + 1, other_y, closer)
         ELSE ScanBox(image, coordinate, ppm, start_x, end_x, end_y,
                      other_x + 1, other_y, closest_location)

\* closest_black_pixel.  The saturating additions cannot saturate for the
\* coordinates and distances of the model.
closest_black_pixel(image, w, h, coordinate, max_distance_mm, ppm) ==
    LET max_distance_pixels == FloorInt(F32Mul(max_distance_mm, ppm))
        start_x == SaturatingSub(coordinate.x, max_distance_pixels)
        end_x   == Min(coordinate.x + max_distance_pixels, w)
        start_y == SaturatingSub(coordinate.y, max_distance_pixels)
        end_y   == Min(coordinate.y + max_distance_pixels, h)
    IN ScanBox(image, coordinate, ppm, start_x, end_x, end_y, start_x, start_y,
               None)

\* The input coordinate of an output pixel: flipped horizontally.
InputCoordinate(w, ox, oy) == PixelCoordinate(w - 1 - ox, oy)

\* The body of the inner loop of compute_negative_form: output_color.
OutputColor(image, w, h, ox, oy, fade, ppm) ==
    LET closest == closest_black_pixel(image, w, h, InputCoordinate(w, ox, oy),
                                       fade, ppm)
    IN IF closest.some THEN fade_fn(closest.v, fade) ELSE U16_MAX

\* Image sizes of the negative-form runs, and how many mark pixels at most.
NegWidth == 3

NegHeight == 3

MaxMarks == 2

WHITE == U16_MAX

\* Inputs: white images with at most MaxMarks black pixels.
Inputs(w, h) ==
    {[c \in Pixels(w, h) |-> IF c \in marks THEN BLACK ELSE WHITE] :
        marks \in {m \in SUBSET Pixels(w, h) : Cardinality(m) <= MaxMarks}}

\* <<fade_distance, pixels_per_mm>>: 1.0 mm at 1 px/mm, 1.5 mm at 1 px/mm,
\* 0.05 mm and 0.25 mm at 10 px/mm, 1.0 mm at 2 px/mm, 4.5 mm at 1 px/mm.
NegConfigs ==
    {<<F32FromInt(1), F32FromInt(1)>>, <<F32Dec(15, 10), F32FromInt(1)>>,
     <<F32Dec(5, 100), F32FromInt(10)>>, <<F32Dec(25, 100), F32FromInt(10)>>,
     <<F32FromInt(1), F32FromInt(2)>>, <<F32Dec(45, 10), F32FromInt(1)>>}

InitNegative ==
    /\ pc = "negative"
    /\ width = NegWidth
    /\ height = NegHeight
    /\ input \in Inputs(NegWidth, NegHeight)
    /\ \E cfg \in NegConfigs : fade_distance = cfg[1] /\ pixels_per_mm = cfg[2]
    /\ punch_out_depth = Zero
    /\ sheet_thickness = Zero
    /\ negative_form = NewImage(NegWidth, NegHeight)
    /\ output_x = 0
    /\ output_y = 0
    /\ NbIdle /\ FadeIdle /\ PosIdle

\* One pass of the inner loop of compute_negative_form, and the loop headers
\* that follow it.
NegativePixel ==
    /\ pc = "negative"
    /\ negative_form' =
         [negative_form EXCEPT ![PixelCoordinate(output_x, output_y)] =
            OutputColor(input, width, height, output_x, output_y, fade_distance,
                        pixels_per_mm)]
    /\ IF output_x + 1 < width
       THEN output_x' = output_x + 1 /\ UNCHANGED <<output_y, pc>>
       ELSE /\ output_x' = 0
            /\ output_y' = output_y + 1
            /\ pc' = IF output_y + 1 < height THEN "negative" ELSE "negative_done"
    /\ UNCHANGED <<nbVars, fadeVars, imgVars, posVars>>

NextNegative == NegativePixel

SpecNegative == InitNegative /\ [][NextNegative]_vars

(***************************************************************************)
(* compute_positive_form                                                   *)
(***************************************************************************)

\* Lines 171 and 174: the negative-form pixel an offset leads to.
NegativeY(py, offset) == py + offset.y

\* The column without the horizontal flip.
NegativeXUnflipped(w, px, offset) == px + offset.x

NegativeX(w, px, offset) == w - 1 - (px + offset.x)

\* Lines 176-179: the pixel is outside the image.
Outside(w, h, nx, ny) == ny < 0 \/ ny >= h \/ nx < 0 \/ nx >= w

\* Lines 184-189.
XyDistanceMm(distance_pixels, ppm) == F32Div(distance_pixels, ppm)

NegativeZMm(sample, pod) ==
    F32Mul(F32Div(F32FromInt(sample), F32FromInt(U16_MAX)), pod)

\* Lines 193-195: the missing side of the triangle.
RequiredZDiffMm(st, xy_distance_mm) ==
    F32Sqrt(F32Sub(F32Mul(st, st), F32Mul(xy_distance_mm, xy_distance_mm)))

\* Lines 198-200.
BumpUp(z, required_z) == IF F32Gt(required_z, z) THEN required_z ELSE z

\* A break that forgets the clearance still to come.
AbortEarlyNoDiff(z, pod, required_z_diff_mm) == F32Gt(z, pod)

\* Line 204.
AbortEarly(z, pod, required_z_diff_mm) ==
    F32Gt(z, F32Add(pod, required_z_diff_mm))

\* The sample without the inversion.
PositivePixelNotInverted(z, pod) ==
    AsU16(F32Mul(F32Div(z, pod), F32FromInt(U16_MAX)))

\* Lines 211-212.
PositivePixel(z, pod) ==
    U16_MAX - AsU16(F32Mul(F32Div(z, pod), F32FromInt(U16_MAX)))

\* What one pass of the scan loop does for table entry en at pixel (px, py)
\* with height z so far: the pixel read (if any), the new z, break or not.
ScanEntry(nf, w, h, px, py, en, z, pod, st, ppm) ==
    LET negative_y == NegativeY(py, en.pos)
        negative_x == NegativeX(w, px, en.pos)
    IN IF Outside(w, h, negative_x, negative_y)
       THEN [kind |-> "skip", offset |-> en.pos, before |-> z, z |-> z,
             brk |-> FALSE]
       ELSE LET xy_distance_mm     == XyDistanceMm(en.distance, ppm)
                negative_z_mm      ==
                    NegativeZMm(nf[PixelCoordinate(negative_x, negative_y)], pod)
                required_z_diff_mm == RequiredZDiffMm(st, xy_distance_mm)
                required_z         == F32Add(negative_z_mm, required_z_diff_mm)
                bumped             == BumpUp(z, required_z)
            IN [kind |-> "read", offset |-> en.pos, before |-> z,
                at |-> PixelCoordinate(negative_x, negative_y),
                diff |-> required_z_diff_mm, z |-> bumped,
                brk |-> AbortEarly(bumped, pod, required_z_diff_mm)]

\* Image sizes of the positive-form runs.
PosWidth == 3

PosHeight == 2

Samples == {0, 32768, U16_MAX}

\* Negative forms: one sample everywhere but for at most one pixel.
NegativeForms(w, h) ==
    {[c \in Pixels(w, h) |-> IF c = spot THEN s ELSE background] :
        spot \in Pixels(w, h), s \in Samples, background \in Samples}

\* <<punch_out_depth, sheet_thickness, pixels_per_mm>>
PosConfigs ==
    {<<F32Dec(25, 10), F32Dec(7, 10), F32FromInt(1)>>,
     <<F32Dec(25, 10), F32Dec(7, 10), F32FromInt(2)>>,
     <<F32Dec(25, 10), F32Dec(13, 10), F32FromInt(1)>>,
     <<F32FromInt(3), F32Dec(13, 10), F32FromInt(1)>>,
     <<F32FromInt(2), F32Dec(15, 10), F32FromInt(1)>>}

InitPositive ==
    /\ pc = "positive"
    /\ width = PosWidth
    /\ height = PosHeight
    /\ input = <<>>
    /\ fade_distance = Zero
    /\ negative_form \in NegativeForms(PosWidth, PosHeight)
    /\ \E cfg \in PosConfigs :
          /\ punch_out_depth = cfg[1]
          /\ sheet_thickness = cfg[2]
          /\ pixels_per_mm = cfg[3]
    /\ NbIdle /\ FadeIdle /\ NegIdle /\ PosIdle

\* Lines 155-159: the output image and the offset table, built once.
BeginPositive ==
    /\ pc = "positive"
    /\ positive_form' = NewImage(width, height)
    /\ sheet_thickness_neighbors' = NeighborsNew(F32Mul(sheet_thickness, pixels_per_mm))
    /\ positive_x' = 0
    /\ positive_y' = 0
    /\ pc' = "pixel"
    /\ UNCHANGED <<nbVars, fadeVars, imgVars, negative_form, negVars,
                   positive_z_mm, read>>

\* Lines 162-170: the loop headers; a pixel starts at height 0 with a fresh
\* iterator over the table.
BeginPixel ==
    /\ pc = "pixel"
    /\ IF positive_y < height
       THEN /\ positive_z_mm' = Zero
            /\ iter' = 1
            /\ read' = NoRead
            /\ pc' = "scan"
       ELSE /\ pc' = "positive_done"
            /\ UNCHANGED <<positive_z_mm, iter, read>>
    /\ UNCHANGED <<max_radius, neighbors, collected, fadeVars, imgVars,
                   negative_form, negVars, sheet_thickness_neighbors,
                   positive_form, positive_x, positive_y>>

\* Lines 170-207: one pass of the scan loop, or its end.
ScanStep ==
    /\ pc = "scan"
    /\ IF iter > Len(sheet_thickness_neighbors)
       THEN pc' = "scanned" /\ UNCHANGED <<iter, positive_z_mm, read>>
       ELSE LET r == ScanEntry(negative_form, width, height, positive_x,
                               positive_y, sheet_thickness_neighbors[iter],
                               positive_z_mm, punch_out_depth, sheet_thickness,
                               pixels_per_mm)
            IN /\ read' = r
               /\ positive_z_mm' = r.z
               /\ iter' = iter + 1
               /\ pc' = IF r.brk THEN "scanned" ELSE "scan"
    /\ UNCHANGED <<max_radius, neighbors, collected, fadeVars, imgVars,
                   negative_form, negVars, sheet_thickness_neighbors,
                   positive_form, positive_x, positive_y>>

\* Lines 208-213: the sheet thickness off, the two assertions, the pixel.
FinishPixel ==
    /\ pc = "scanned"
    /\ LET z == F32Sub(positive_z_mm, sheet_thickness)
       IN /\ positive_z_mm' = z
          /\ IF F32Ge(z, Zero) /\ F32Le(z, punch_out_depth)
             THEN /\ positive_form' =
                       [positive_form EXCEPT
                          ![PixelCoordinate(positive_x, positive_y)] =
                             PositivePixel(z, punch_out_depth)]
                  /\ IF positive_x + 1 < width
                     THEN positive_x' = positive_x + 1 /\ UNCHANGED positive_y
                     ELSE positive_x' = 0 /\ positive_y' = positive_y + 1
                  /\ pc' = "pixel"
             ELSE /\ pc' = "panic"
                  /\ UNCHANGED <<positive_form, positive_x, positive_y>>
    /\ UNCHANGED <<nbVars, fadeVars, imgVars, negative_form, negVars,
                   sheet_thickness_neighbors, read>>

NextPositive == BeginPositive \/ BeginPixel \/ ScanStep \/ FinishPixel

SpecPositive == InitPositive /\ [][NextPositive]_vars

(***************************************************************************)
(* Properties of the offset table                                          *)
(***************************************************************************)

\* dx^2 + dy^2 <= r^2, decided exactly (r = m * 2^e, 0 <= r < 4096).
WithinRadius(dx, dy, r) ==
    LET k == dx * dx + dy * dy
    IN IF k = 0 THEN TRUE
       ELSE IF F32Lt(r, One) THEN FALSE
       ELSE MulParts(r.m, r.m).hi >= k * 2^(-2 * r.e - 24)

Disk(r) ==
    LET b == FloorInt(r) + 1
    IN {c \in {Coordinate(dx, dy) : dx \in (-b)..b, dy \in (-b)..b} :
          WithinRadius(c.x, c.y, r)}

Offsets(table) == {table[i].pos : i \in 1..Len(table)}

OffsetSeq(table) == [i \in 1..Len(table) |-> <<table[i].pos.x, table[i].pos.y>>]

SquaredLength(c) == c.x * c.x + c.y * c.y

\* C1: the table built for radius r holds exactly the integer offsets of the
\* closed disk dx^2 + dy^2 <= r^2, each once, and a radius below 1 gives the
\* single entry ((0,0), 0.0).
C1_TableIsTheDisk ==
    pc = "built" =>
        /\ Offsets(neighbors) = Disk(max_radius)
        /\ Cardinality(Offsets(neighbors)) = Len(neighbors)
        /\ F32Lt(max_radius, One) =>
              neighbors = <<[pos |-> Coordinate(0, 0), distance |-> Zero]>>

Sqrt2Plus == F32Add(F32Sqrt(F32FromInt(2)), F32Dec(1, 10000))

VonNeumann == <<<<0, 0>>, <<0, -1>>, <<-1, 0>>, <<1, 0>>, <<0, 1>>>>

Diagonals == <<<<-1, -1>>, <<1, -1>>, <<-1, 1>>, <<1, 1>>>>

\* The iterator has yielded every entry.
Exhausted == pc = "built" /\ iter = Len(neighbors) + 1

\* C2: an iteration yields the entries by non-decreasing distance, entries at
\* the same distance by dy and then dx ascending; radius 1 gives (0,0),
\* (0,-1), (-1,0), (1,0), (0,1) and a radius just above sqrt(2) those and
\* then (-1,-1), (1,-1), (-1,1), (1,1); every fresh iteration yields the
\* table from its start.
C2_IterationOrder ==
    /\ collected = SubSeq(neighbors, 1, Len(collected))
    /\ iter > 0 => Len(collected) = iter - 1
    /\ \A i \in 1..(Len(collected) - 1) :
          LET a == collected[i]
              b == collected[i + 1]
          IN /\ SquaredLength(a.pos) <= SquaredLength(b.pos)
             /\ F32Le(a.distance, b.distance)
             /\ SquaredLength(a.pos) = SquaredLength(b.pos) =>
                   \/ a.pos.y < b.pos.y
                   \/ a.pos.y = b.pos.y /\ a.pos.x < b.pos.x
    /\ Exhausted /\ max_radius = One =>
          /\ OffsetSeq(collected) = VonNeumann
          /\ \A i \in 2..5 : collected[i].distance = One
    /\ Exhausted /\ max_radius = Sqrt2Plus =>
          /\ OffsetSeq(collected) = VonNeumann \o Diagonals
          /\ \A i \in 6..9 : collected[i].distance = F32Sqrt(Two)

\* An iteration over the table of radius sqrt(2) + 0.0001 has run to its end.
C2_Witness ==
    /\ Exhausted
    /\ max_radius = Sqrt2Plus
    /\ Len(collected) = 9

(***************************************************************************)
(* Properties of fade_fn                                                   *)
(***************************************************************************)

\* C8: fade_fn(0, f) = 0, fade_fn(f, f) = MAX_SAMPLE, fade_fn is
\* non-decreasing in d on [0, f], and for d > f it returns MAX_SAMPLE without
\* evaluating the cosine.
C8_FadeContract ==
    pc = "fade_ret" =>
        /\ distance_to_black_mm = Zero => fade_ret = 0
        /\ distance_to_black_mm = fade_distance_mm => fade_ret = U16_MAX
        /\ F32Gt(distance_to_black_mm, fade_distance_mm) =>
              fade_ret = U16_MAX /\ cos_calls = 0
        /\ F32Le(distance_to_black_mm, fade_distance_mm) =>
              /\ cos_calls = 1
              /\ \A d \in FadeInputs(fade_distance_mm) :
                    F32Le(d, distance_to_black_mm) =>
                        fade_fn(d, fade_distance_mm) <= fade_ret

\* A call strictly inside the fade range that returned an intermediate sample.
C8_Witness ==
    /\ pc = "fade_ret"
    /\ F32Lt(Zero, distance_to_black_mm)
    /\ F32Lt(distance_to_black_mm, fade_distance_mm)
    /\ 0 < fade_ret
    /\ fade_ret < U16_MAX

(***************************************************************************)
(* Properties of the negative form                                         *)
(***************************************************************************)

\* The pixels of a w-wide image that come before (px, py) in row-major order.
Before(w, h, px, py) == {c \in Pixels(w, h) : c.y < py \/ (c.y = py /\ c.x < px)}

\* The output pixels compute_negative_form has written.
NegativeWritten == Before(width, height, output_x, output_y)

\* The offset-table formulation of the nearest-mark query: the table of
\* radius fade_distance * pixels_per_mm is walked in ascending distance and
\* the first in-bounds mark pixel decides.
RECURSIVE FirstMark(_, _, _, _, _, _)
FirstMark(image, w, h, coordinate, table, i) ==
    IF i > Len(table) THEN None
    ELSE LET c == PixelCoordinate(coordinate.x + table[i].pos.x,
                                  coordinate.y + table[i].pos.y)
         IN IF c \in Pixels(w, h) /\ image[c] = BLACK
            THEN Some(table[i].distance)
            ELSE FirstMark(image, w, h, coordinate, table, i + 1)

TableSample(image, w, h, coordinate, fade, ppm) ==
    LET hit == FirstMark(image, w, h, coordinate,
                         NeighborsNew(F32Mul(fade, ppm)), 1)
    IN IF hit.some THEN fade_fn(F32Div(hit.v, ppm), fade) ELSE U16_MAX

\* C3: every sample of the negative form equals the sample of the offset-table
\* formulation: it is decided by the nearest mark within the fade radius,
\* whatever its direction.
C3_BoxScanIsTableScan ==
    \A c \in NegativeWritten :
        negative_form[c] =
            TableSample(input, width, height, InputCoordinate(width, c.x, c.y),
                        fade_distance, pixels_per_mm)

\* C4: a mark pixel at (x, y) gives sample 0 at output (width-1-x, y).
C4_MarkGivesZero ==
    \A c \in NegativeWritten :
        input[InputCoordinate(width, c.x, c.y)] = BLACK => negative_form[c] = 0

Centre == PixelCoordinate((width - 1) \div 2, (height - 1) \div 2)

SingleCentreMark ==
    /\ width % 2 = 1
    /\ height % 2 = 1
    /\ \A c \in Pixels(width, height) : input[c] = BLACK <=> c = Centre

SquaredDistance(a, b) == (a.x - b.x) * (a.x - b.x) + (a.y - b.y) * (a.y - b.y)

\* C5: with the only mark at the centre of the grid, an output pixel nearer to
\* the mark never has a larger sample than one farther away.
C5_MonotoneAroundCentre ==
    SingleCentreMark =>
        \A a \in NegativeWritten, b \in NegativeWritten :
            SquaredDistance(a, Centre) < SquaredDistance(b, Centre) =>
                negative_form[a] <= negative_form[b]

(***************************************************************************)
(* Properties of the positive form                                         *)
(***************************************************************************)

InScan == pc \in {"scan", "scanned"}

\* The pixels compute_positive_form has written.
PositiveWritten == Before(width, height, positive_x, positive_y)

\* C6: after the scan and the subtraction of the sheet thickness the height
\* is within [0, punch_out_depth]: neither assertion fails, at any pixel.
C6_AssertionsHold ==
    /\ pc # "panic"
    /\ pc = "pixel" /\ PositiveWritten # {} =>
          F32Ge(positive_z_mm, Zero) /\ F32Le(positive_z_mm, punch_out_depth)

ZeroForm == \A c \in Pixels(width, height) : negative_form[c] = 0

\* C7 as claimed: a negative form that is 0 everywhere gives height 0 and
\* sample 0 at every pixel.
C7_ZeroFormGivesZero ==
    ZeroForm /\ pc \in {"pixel", "scan", "scanned", "positive_done"} =>
        /\ pc = "pixel" /\ PositiveWritten # {} => positive_z_mm = Zero
        /\ \A c \in PositiveWritten : positive_form[c] = 0

\* C7 amended: a negative form that is 0 everywhere gives height exactly 0 at
\* every pixel, no assertion fails, and the sample written, u16::MAX minus
\* the linear map of z / punch_out_depth, is u16::MAX at every pixel.
C7_ZeroFormGivesMax ==
    ZeroForm =>
        /\ pc # "panic"
        /\ pc \in {"pixel", "scan", "scanned", "positive_done"} =>
              /\ pc = "pixel" /\ PositiveWritten # {} => positive_z_mm = Zero
              /\ \A c \in PositiveWritten : positive_form[c] = U16_MAX

\* The stage has run to its end on a negative form that is 0 everywhere.
C7_Witness ==
    /\ ZeroForm
    /\ pc = "positive_done"
    /\ PositiveWritten = Pixels(width, height)
    /\ Len(sheet_thickness_neighbors) > 1

\* The scan of one pixel from table entry i on, without the break.
RECURSIVE FullScan(_, _, _, _, _, _, _, _, _, _, _)
FullScan(nf, w, h, px, py, table, i, z, pod, st, ppm) ==
    IF i > Len(table) THEN z
    ELSE FullScan(nf, w, h, px, py, table, i + 1,
                  ScanEntry(nf, w, h, px, py, table[i], z, pod, st, ppm).z,
                  pod, st, ppm)

\* required_z_diff_mm of table entry i.
DiffOf(i) ==
    RequiredZDiffMm(sheet_thickness,
                    XyDistanceMm(sheet_thickness_neighbors[i].distance,
                                 pixels_per_mm))

\* C9: the z the scan ends with, break or not, is the z of the scan of the
\* whole table without the break; along the table required_diff never grows,
\* and no step lowers z.
C9_BreakChangesNothing ==
    /\ pc = "scanned" =>
          positive_z_mm =
              FullScan(negative_form, width, height, positive_x, positive_y,
                       sheet_thickness_neighbors, 1, Zero, punch_out_depth,
                       sheet_thickness, pixels_per_mm)
    /\ pc = "pixel" =>
          \A i \in 1..(Len(sheet_thickness_neighbors) - 1) :
              \/ DiffOf(i + 1).nan
              \/ F32Ge(DiffOf(i), DiffOf(i + 1))
    /\ InScan /\ read.kind # "none" =>
          F32Le(read.before, read.z) /\ positive_z_mm = read.z

\* Entries of the table that lead to pixels inside the image and that the
\* scan has not visited.
Unvisited ==
    {i \in iter..Len(sheet_thickness_neighbors) :
        ~Outside(width, height,
                 NegativeX(width, positive_x, sheet_thickness_neighbors[i].pos),
                 NegativeY(positive_y, sheet_thickness_neighbors[i].pos))}

\* The scan broke off before in-image entries of the table, one of them a
\* pixel above the lowest sample.
C9_Witness ==
    /\ pc = "scanned"
    /\ read.kind = "read"
    /\ read.brk
    /\ \E i \in Unvisited :
          negative_form[PixelCoordinate(
              NegativeX(width, positive_x, sheet_thickness_neighbors[i].pos),
              NegativeY(positive_y, sheet_thickness_neighbors[i].pos))] > 0

\* C10 as claimed: the sample read for an offset is the one at p + offset.
C10_ReadsAtOffset ==
    InScan /\ read.kind = "read" =>
        read.at = PixelCoordinate(positive_x + read.offset.x,
                                  positive_y + read.offset.y)

\* The negative-form pixel that offset leads to from (px, py): the column is
\* counted from the right edge.
Mirrored(px, py, offset) ==
    PixelCoordinate(width - 1 - (px + offset.x), py + offset.y)

\* A negative form that differs from nf at every pixel farther than the
\* table's radius from the mirror image of (px, py).
Masked(nf, px, py) ==
    [c \in Pixels(width, height) |->
        IF WithinRadius(c.x - (width - 1 - px), c.y - py,
                        F32Mul(sheet_thickness, pixels_per_mm))
        THEN nf[c] ELSE U16_MAX - nf[c]]

\* C10 amended: the sample read for an offset is the one at column
\* width-1-(p.x + offset.x) and row p.y + offset.y, without wraparound; an
\* offset that leads outside the grid is skipped, changing nothing and not
\* ending the scan; the value at p depends only on the negative-form pixels
\* within the sheet-thickness radius of the mirror image of p.
C10_ReadsMirrored ==
    /\ InScan /\ read.kind = "read" =>
          /\ read.at = Mirrored(positive_x, positive_y, read.offset)
          /\ read.at \in Pixels(width, height)
    /\ InScan /\ read.kind = "skip" =>
          /\ Mirrored(positive_x, positive_y, read.offset) \notin Pixels(width, height)
          /\ positive_z_mm = read.before
          /\ pc = "scanned" => iter > Len(sheet_thickness_neighbors)
    /\ pc = "scanned" =>
          positive_z_mm =
              FullScan(Masked(negative_form, positive_x, positive_y), width,
                       height, positive_x, positive_y,
                       sheet_thickness_neighbors, 1, Zero, punch_out_depth,
                       sheet_thickness, pixels_per_mm)

\* Table entries the scan of the current pixel has visited and skipped.
Skipped ==
    {i \in 1..(iter - 1) :
        Outside(width, height,
                NegativeX(width, positive_x, sheet_thickness_neighbors[i].pos),
                NegativeY(positive_y, sheet_thickness_neighbors[i].pos))}

\* A scan has ended that skipped an offset, then read a sample at a column
\* other than p.x + offset.x, with a pixel of the grid beyond the radius.
C10_Witness ==
    /\ pc = "scanned"
    /\ read.kind = "read"
    /\ read.at.x # positive_x + read.offset.x
    /\ Skipped # {}
    /\ \E c \in Pixels(width, height) :
          Masked(negative_form, positive_x, positive_y)[c] # negative_form[c]

====
